---- MODULE Spec2Model ----
(***************************************************************************)
(* Orchestration core of Traffic-AutoLabel:                                *)
(*   - the dashboard task lifecycle (TaskManager + LabelingEngine + Task), *)
(*   - the worker-pool batch processor (ParallelProcessor),                *)
(*   - the bounded-concurrency async processor (AsyncDetector),            *)
(*   - the retry/backoff executor (retry_api_call),                        *)
(*   - the event bus (EventBus),                                           *)
(*   - the locks of TaskManager, LabelingEngine and EventBus.              *)
(* A deployment runs one of them at a time: sys selects which one a        *)
(* behaviour exercises, the others stay in their initial state.            *)
(***************************************************************************)
EXTENDS Integers, Sequences, FiniteSets, TLC

\* ------------------------------------------------------------------ bounds
MaxItems == 3        \* items of a task / of a batch
Workers == 2         \* pool size (max_workers) / permit count (max_concurrent)
MaxStarts == 2       \* accepted start_task calls per task
MaxStops == 1        \* stop_task calls per task
MaxDeletes == 2      \* delete_task calls per task id
MaxBatchRuns == 2    \* process_batch runs over one output directory

\* AsyncDetector.detect(image_path, retry=3)
DetectRetries == 3

MaxRetries == 3      \* the largest max_retries a caller passes to retry_api_call
MaxQueues == 2       \* subscribe calls on the EventBus
MaxEvents == 2       \* publish calls of the publishing thread

\* retry_api_call(delay=2.0, backoff_factor=2.0)
RetryDelay == 2
BackoffFactor == 2

Systems == {"dashboard", "batch", "async", "retry", "events", "locks"}

\* ---------------------------------------------------------------- statuses
PENDING == "pending"
EXTRACTING == "extracting"
RUNNING == "running"
VISUALIZING == "visualizing"
PACKAGING == "packaging"
PAUSED == "paused"
COMPLETED == "completed"
FAILED == "failed"

RunningFamily == {RUNNING, EXTRACTING, VISUALIZING, PACKAGING}

IMAGES == "images"
VIDEO == "video"

\* The fields of TaskStats that count a category.
StatFields == {"pedestrian", "vehicle", "traffic_sign", "construction", "unknown"}

\* What a successful detect() call can return: a list of detections, each
\* given by its category (ObjectDetector._post_process tags every detection
\* with get_category's answer, one of StatFields).
DetChoices == {<<"vehicle", "traffic_sign">>, <<"pedestrian">>}

VARIABLES
    sys,               \* which component this behaviour exercises
    \* ---- dashboard: TaskManager registry, one task
    registered,        \* the task is in TaskManager._tasks
    mode,              \* Task.mode
    status,            \* Task.status
    n_images,          \* len(task._image_paths)
    total_frames,      \* Task.total_frames
    completed_frames,  \* Task.completed_frames
    failed_frames,     \* Task.failed_frames
    extract_progress,  \* Task.extract_progress, in tenths
    stats,             \* Task.stats: category counters
    n_results,         \* number of FrameResults appended to recent_frames so far
    running_flag,      \* LabelingEngine._running_tasks.get(task.id): absent / true / false
    runs,              \* the engine threads started for the task, in start order
    starts,            \* accepted start_task calls
    stops,             \* stop_task calls
    prev_status,       \* the value Task.status had before its last change
    status_event,      \* the event published with that change (none: no event)
    created_at,        \* Task.created_at (0: None)
    started_at,        \* Task.started_at (0: None)
    completed_at,      \* Task.completed_at (0: None)
    now,               \* the clock datetime.now() reads; it moves with every reading
    stamp_writes,      \* how often started_at and completed_at were assigned
    deletion,          \* the delete_task calls for the task id and what they found
    records,           \* the items whose <frame_id>.json is in the output directory
    \* ---- ParallelProcessor.process_batch over one output directory
    b_pc,              \* idle (no process), collecting (as_completed loop), done
    b_n,               \* len(image_paths) as the caller passes it
    b_fail,            \* the items on which the (deterministic) collaborator fails
    b_resume,          \* the resume argument of the current run
    b_disk,            \* the record <stem>.json of each item: none, partial, full
    b_items,           \* the future of each item of the current run
    b_stats,           \* ParallelProcessor.stats
    b_results,         \* the results dictionary of the current run
    b_invoked,         \* the items the collaborator was invoked on in this run
    b_exist0,          \* the items whose record existed when this run began
    b_prev,            \* how the previous run ended: none, interrupted, finished
    b_runs,            \* process_batch runs started
    \* ---- run_labeling_async with its AsyncDetector
    a_pc,              \* idle, gather (as_completed loop), done
    a_n,               \* len(image_files)
    a_rag,             \* use_rag
    a_disk,            \* the record <stem>.json of each frame: none, full
    a_sem,             \* AsyncDetector.semaphore: the permits left
    a_tasks,           \* the detect_and_save task of each frame
    a_stats,           \* the stats dictionary of the run
    a_count,           \* success and errors as the as_completed loop counts them
    \* ---- one call of retry_api_call
    r_pc,              \* idle, loop (inside the for loop), done
    r_max_retries,     \* max_retries
    r_on_retry,        \* the observer: none, silent, raising
    r_attempt,         \* the loop variable
    r_current_delay,   \* current_delay
    r_errors,          \* the exception of every failed func() call, in order
    r_calls,           \* func() calls made
    r_waits,           \* the durations time.sleep was called with and slept
    r_seen,            \* the attempt numbers on_retry was called with
    r_outcome,         \* none, returned, or what was raised
    r_result,          \* the func() call whose value was returned (0: none)
    r_last_exception,  \* last_exception: the func() call that raised it (0: None)
    \* ---- the EventBus, the server thread and one publishing thread
    e_subscribers,        \* EventBus._subscribers: task id -> set of queues
    e_global_subscribers, \* EventBus._global_subscribers
    e_queues,             \* the queues subscribe has returned, in order
    e_publisher,          \* the thread inside EventBus.publish
    e_published,          \* the events whose publish call has taken its copy
    \* ---- the three locks and the threads that take them
    l_holder,             \* the thread inside each lock (none: the lock is free)
    l_threads             \* what each thread is executing and how far it is

stampVars == <<created_at, started_at, completed_at, now, stamp_writes>>

dashVars == <<registered, mode, status, n_images, total_frames, completed_frames,
              failed_frames, extract_progress, stats, n_results, running_flag,
              runs, starts, stops, prev_status, status_event, stampVars,
              deletion, records>>

batchVars == <<b_pc, b_n, b_fail, b_resume, b_disk, b_items, b_stats, b_results,
               b_invoked, b_exist0, b_prev, b_runs>>

asyncVars == <<a_pc, a_n, a_rag, a_disk, a_sem, a_tasks, a_stats, a_count>>

retryVars == <<r_pc, r_max_retries, r_on_retry, r_attempt, r_current_delay, r_errors,
               r_calls, r_waits, r_seen, r_outcome, r_result, r_last_exception>>

eventVars == <<e_subscribers, e_global_subscribers, e_queues, e_publisher, e_published>>

lockVars == <<l_holder, l_threads>>

vars == <<sys, dashVars, batchVars, asyncVars, retryVars, eventVars, lockVars>>

\* ------------------------------------------------------------------ helpers
RECURSIVE SumOver(_, _)
SumOver(f, S) == IF S = {} THEN 0
                 ELSE LET x == CHOOSE y \in S : TRUE
                      IN f[x] + SumOver(f, S \ {x})

StatsTotal(s) == SumOver(s, StatFields)

Min(S) == CHOOSE x \in S : \A y \in S : x <= y

\* ------------------------------------------------------ Task (models.py)
\* Task.status = v; prev_status remembers the value it replaces.
SetStatus(v) ==
    /\ status' = v
    /\ prev_status' = IF v = status THEN prev_status ELSE status

\* The event the code publishes along with the assignment Task.status = v
\* (none when it publishes nothing for it).
Announce(v, event) ==
    status_event' = IF v = status THEN status_event ELSE event

\* datetime.now().isoformat()
Timestamp == now + 1

\* Task.progress as a fraction ProgressNum / ProgressDen. IMAGES:
\* (completed_frames + failed_frames) / total_frames, 0 without frames. VIDEO:
\* extract_progress * 0.2 + label_progress * 0.6 + visualize_progress * 0.15
\* + 0.05 if COMPLETED, in thousandths; extract_progress is kept in tenths,
\* label_progress is what add_frame_result last computed (0 before the first
\* result), visualize_progress is never set before labeling is over.
LabelProgressNum == IF n_results = 0 \/ total_frames = 0 THEN 0
                    ELSE completed_frames + failed_frames

ProgressNum ==
    IF mode = IMAGES
    THEN IF total_frames = 0 THEN 0 ELSE completed_frames + failed_frames
    ELSE IF total_frames = 0
         THEN extract_progress * 20 + (IF status = COMPLETED THEN 50 ELSE 0)
         ELSE (extract_progress * 20 + (IF status = COMPLETED THEN 50 ELSE 0)) * total_frames
              + LabelProgressNum * 600

ProgressDen ==
    IF mode = IMAGES
    THEN IF total_frames = 0 THEN 1 ELSE total_frames
    ELSE IF total_frames = 0 THEN 1000 ELSE 1000 * total_frames

\* A faulty increment that writes a stale count back: the lost update C9 excludes.
IncrementLost(s, category) ==
    [s EXCEPT ![IF category \in StatFields THEN category ELSE "unknown"] = 1]

\* TaskStats.increment(category): the category's own field, else unknown.
Increment(s, category) ==
    IF category \in StatFields
    THEN [s EXCEPT ![category] = @ + 1]
    ELSE [s EXCEPT !["unknown"] = @ + 1]

RECURSIVE IncrementAll(_, _)
IncrementAll(s, dets) ==
    IF dets = <<>> THEN s
    ELSE IncrementAll(Increment(s, Head(dets)), Tail(dets))

\* A FrameResult: error flag and the detections (empty on error).
FrameResult(err, dets) == [error |-> err, detections |-> dets]

\* Task.add_frame_result(result)
AddFrameResult(result) ==
    /\ n_results' = n_results + 1
    /\ stats' = IncrementAll(stats, result.detections)
    /\ IF result.error
       THEN /\ failed_frames' = failed_frames + 1
            /\ UNCHANGED completed_frames
       ELSE /\ completed_frames' = completed_frames + 1
            /\ UNCHANGED failed_frames

\* -------------------------------------------------- engine runs (engine.py)
\* One engine thread. stopped: stop_task was called while the thread was at
\* work. items[i].st: "none" (not submitted), "queued", "running",
\* "done" (future done, items[i].result is its FrameResult), "collected" (the
\* result was added to the task).
NoResult == FrameResult(FALSE, <<>>)

Item(st, result) == [st |-> st, result |-> result]

NoItems == [i \in 1..MaxItems |-> Item("none", NoResult)]

NewRun(pc0, n) ==
    [pc |-> pc0, npaths |-> n, next |-> 1, items |-> NoItems,
     errs |-> 0, dets |-> 0, collected |-> 0, frames |-> 0,
     events |-> <<"task_started">>, reported |-> 0,
     extracts |-> 0, frame_count |-> 0, stopped |-> FALSE]

RunIds == 1..Len(runs)

Submitted(r) == {i \in 1..MaxItems : runs[r].items[i].st # "none"}
InFlight(r) == {i \in 1..MaxItems : runs[r].items[i].st = "running"}
Queued(r) == {i \in 1..MaxItems : runs[r].items[i].st = "queued"}

\* ------------------------------------------------- TaskManager operations
\* TaskManager.create_task: a non-empty image set, a PENDING IMAGES task.
CreateTask(n) ==
    /\ sys = "dashboard"
    /\ ~registered
    /\ status = "none"
    /\ registered' = TRUE
    /\ mode' = IMAGES
    /\ n_images' = n
    /\ total_frames' = n
    /\ status' = PENDING
    /\ prev_status' = "none"
    /\ created_at' = Timestamp
    /\ now' = Timestamp
    /\ UNCHANGED <<started_at, completed_at, stamp_writes>>
    /\ UNCHANGED <<sys, lockVars, batchVars, asyncVars, retryVars, eventVars, deletion, records, status_event, completed_frames, failed_frames, extract_progress, stats,
                   n_results, running_flag, runs, starts, stops>>

\* TaskManager.create_video_task: the video exists, a PENDING VIDEO task.
CreateVideoTask ==
    /\ sys = "dashboard"
    /\ ~registered
    /\ status = "none"
    /\ registered' = TRUE
    /\ mode' = VIDEO
    /\ n_images' = 0
    /\ total_frames' = 0
    /\ status' = PENDING
    /\ prev_status' = "none"
    /\ created_at' = Timestamp
    /\ now' = Timestamp
    /\ UNCHANGED <<started_at, completed_at, stamp_writes>>
    /\ UNCHANGED <<sys, lockVars, batchVars, asyncVars, retryVars, eventVars, deletion, records, status_event, completed_frames, failed_frames, extract_progress, stats,
                   n_results, running_flag, runs, starts, stops>>

\* TaskManager.start_task, then LabelingEngine.start_task (one handler of the
\* server's event loop; the engine thread it spawns runs beside it).
StartTask ==
    /\ sys = "dashboard"
    /\ registered
    /\ status \notin RunningFamily
    /\ starts < MaxStarts
    /\ starts' = starts + 1
    /\ started_at' = Timestamp
    /\ now' = Timestamp
    /\ stamp_writes' = [stamp_writes EXCEPT !.started_at = @ + 1]
    /\ UNCHANGED <<created_at, completed_at>>
    /\ running_flag' = "true"
    /\ IF mode = VIDEO
       THEN /\ runs' = Append(runs, NewRun("v_begin", 0))
            /\ UNCHANGED <<status, prev_status, status_event, total_frames>>
       ELSE /\ SetStatus(RUNNING)
            /\ Announce(RUNNING, "task_started")
            /\ total_frames' = n_images
            /\ runs' = Append(runs, NewRun("check", n_images))
    /\ UNCHANGED <<sys, lockVars, batchVars, asyncVars, retryVars, eventVars, deletion, records, registered, mode, n_images, completed_frames, failed_frames,
                   extract_progress, stats, n_results, stops>>

\* TaskManager.stop_task, with LabelingEngine.stop_task. The engine threads
\* at work are the ones the request is meant for.
StopTask ==
    /\ sys = "dashboard"
    /\ registered
    /\ stops < MaxStops
    /\ stops' = stops + 1
    /\ running_flag' = "false"
    /\ runs' = [r \in RunIds |->
                   IF runs[r].pc = "done" THEN runs[r]
                   ELSE [runs[r] EXCEPT !.stopped = TRUE]]
    /\ SetStatus(PAUSED)
    /\ Announce(PAUSED, "none")
    /\ UNCHANGED <<sys, lockVars, batchVars, asyncVars, retryVars, eventVars, deletion, records, stampVars, registered, mode, n_images, total_frames, completed_frames,
                   failed_frames, extract_progress, stats, n_results, starts>>

\* No delete_task call has been made.
NoDeletion == [returns |-> <<>>, status |-> "none", flag |-> "none"]

\* TaskManager.delete_task(task_id), called for the id of a created task: a
\* registered task is removed and the answer is True, LabelingEngine.stop_task
\* being called before when its status is RUNNING; else the answer is False.
\* deletion keeps the answers, the status the removed task had and the value
\* of the engine's flag when the task was removed.
DeleteTask ==
    /\ sys = "dashboard"
    /\ status # "none"
    /\ Len(deletion.returns) < MaxDeletes
    /\ IF registered
       THEN /\ running_flag' = IF status = RUNNING THEN "false" ELSE running_flag
            /\ registered' = FALSE
            /\ deletion' = [returns |-> Append(deletion.returns, "true"),
                            status |-> status,
                            flag |-> running_flag']
       ELSE /\ deletion' = [deletion EXCEPT !.returns = Append(@, "false")]
            /\ UNCHANGED <<running_flag, registered>>
    /\ UNCHANGED <<sys, lockVars, batchVars, asyncVars, retryVars, eventVars, records, status_event, stampVars, mode, status, n_images, total_frames,
                   completed_frames, failed_frames, extract_progress, stats,
                   n_results, runs, starts, stops, prev_status>>

\* ------------------------------------------ LabelingEngine._process_images
\* The stop check of the dispatch loop (under the engine lock).
DispatchCheck(r) ==
    /\ runs[r].pc = "check"
    /\ runs' = [runs EXCEPT ![r].pc =
                   IF runs[r].next > runs[r].npaths THEN "collect"
                   ELSE IF running_flag = "true" THEN "submit"
                   ELSE "collect"]
    /\ UNCHANGED <<sys, lockVars, batchVars, asyncVars, retryVars, eventVars, deletion, records, status_event, stampVars, registered, mode, status, n_images, total_frames,
                   completed_frames, failed_frames, extract_progress, stats,
                   n_results, running_flag, starts, stops, prev_status>>

\* executor.submit(self._process_single_sync, ...)
Submit(r) ==
    /\ runs[r].pc = "submit"
    /\ runs' = [runs EXCEPT ![r].pc = "check",
                            ![r].items[runs[r].next].st = "queued",
                            ![r].next = @ + 1]
    /\ UNCHANGED <<sys, lockVars, batchVars, asyncVars, retryVars, eventVars, deletion, records, status_event, stampVars, registered, mode, status, n_images, total_frames,
                   completed_frames, failed_frames, extract_progress, stats,
                   n_results, running_flag, starts, stops, prev_status>>

\* A pool without its size limit: C6 must notice the extra calls.
PoolUnbounded(r) == TRUE

\* The pool admits a queued call when one of its max_workers threads is free.
PoolHasRoom(r) == Cardinality(InFlight(r)) < Workers

\* A pool thread takes the oldest queued call.
WorkerStart(r) ==
    /\ Queued(r) # {}
    /\ PoolHasRoom(r)
    /\ runs' = [runs EXCEPT ![r].items[Min(Queued(r))].st = "running"]
    /\ UNCHANGED <<sys, lockVars, batchVars, asyncVars, retryVars, eventVars, deletion, records, status_event, stampVars, registered, mode, status, n_images, total_frames,
                   completed_frames, failed_frames, extract_progress, stats,
                   n_results, running_flag, starts, stops, prev_status>>

\* A faulty _process_single_sync that hides the exception of an item: C8 must
\* notice the failure that is not counted.
ProcessSingleSyncSwallow(outcome, dets) == FrameResult(FALSE, dets)

\* How a call of _process_single_sync can go: everything works, detect (or
\* the review, or the conversion to the annotation format) raises, or the
\* record is written and _visualize raises after it.
SingleOutcomes == {"ok", "detect_failed", "visualize_failed"}

\* _process_single_sync: the FrameResult of a successful call carries its
\* detections; any exception becomes a FrameResult with an error.
ProcessSingleSync(outcome, dets) ==
    IF outcome = "ok" THEN FrameResult(FALSE, dets) ELSE FrameResult(TRUE, <<>>)

\* _process_single_sync writes <frame_id>.json once detect has answered,
\* before it draws the visualization.
RecordWritten(outcome) == outcome # "detect_failed"

WorkerFinish(r, i) ==
    /\ runs[r].items[i].st = "running"
    /\ \E outcome \in SingleOutcomes, d \in DetChoices :
          /\ outcome = "ok" \/ d = CHOOSE x \in DetChoices : TRUE
          /\ runs' = [runs EXCEPT
                        ![r].items[i] = Item("done", ProcessSingleSync(outcome, d)),
                        ![r].errs = IF outcome = "ok" THEN @ ELSE @ + 1,
                        ![r].dets = IF outcome = "ok" THEN @ + Len(d) ELSE @]
          /\ records' = IF RecordWritten(outcome) THEN records \cup {i} ELSE records
    /\ UNCHANGED <<sys, lockVars, batchVars, asyncVars, retryVars, eventVars, deletion, status_event, stampVars, registered, mode, status, n_images, total_frames,
                   completed_frames, failed_frames, extract_progress, stats,
                   n_results, running_flag, starts, stops, prev_status>>

\* One iteration of the as_completed loop: a finished future's result is
\* added to the task, FRAME_COMPLETED and STATS_UPDATE are published (the
\* issues of a frame, and the events for them, are left out).
Collect(r, i) ==
    /\ runs[r].pc = "collect"
    /\ runs[r].items[i].st = "done"
    /\ AddFrameResult(runs[r].items[i].result)
    /\ runs' = [runs EXCEPT ![r].items[i] = Item("collected", NoResult),
                            ![r].collected = @ + 1,
                            ![r].events = @ \o <<"frame_completed", "stats_update">>]
    /\ UNCHANGED <<sys, lockVars, batchVars, asyncVars, retryVars, eventVars, deletion, records, status_event, stampVars, registered, mode, status, n_images, total_frames,
                   extract_progress, running_flag, starts, stops, prev_status>>

\* After the pool has been drained: task.status = COMPLETED.
ProcessImagesComplete(r) ==
    /\ runs[r].pc = "collect"
    /\ \A i \in Submitted(r) : runs[r].items[i].st = "collected"
    /\ SetStatus(COMPLETED)
    /\ Announce(COMPLETED, "task_completed")
    /\ completed_at' = Timestamp
    /\ now' = Timestamp
    /\ stamp_writes' = [stamp_writes EXCEPT !.completed_at = @ + 1]
    /\ UNCHANGED <<created_at, started_at>>
    /\ runs' = [runs EXCEPT ![r].pc = "pop"]
    /\ UNCHANGED <<sys, lockVars, batchVars, asyncVars, retryVars, eventVars, deletion, records, registered, mode, n_images, total_frames, completed_frames,
                   failed_frames, extract_progress, stats, n_results, running_flag,
                   starts, stops>>

\* self._running_tasks.pop(task.id, None), then TASK_COMPLETED is published
\* and the run ends.
PopRunning(r) ==
    /\ runs[r].pc = "pop"
    /\ running_flag' = "absent"
    /\ runs' = [runs EXCEPT ![r].pc = "done",
                            ![r].events = Append(@, "task_completed")]
    /\ UNCHANGED <<sys, lockVars, batchVars, asyncVars, retryVars, eventVars, deletion, records, status_event, stampVars, registered, mode, status, n_images, total_frames,
                   completed_frames, failed_frames, extract_progress, stats,
                   n_results, starts, stops, prev_status>>

\* ------------------------------------ LabelingEngine._process_video_pipeline
\* Stage 1: task.status = EXTRACTING.
VideoBegin(r) ==
    /\ runs[r].pc = "v_begin"
    /\ SetStatus(EXTRACTING)
    /\ Announce(EXTRACTING, "stage_changed")
    /\ runs' = [runs EXCEPT ![r].pc = "v_extract",
                            ![r].events = Append(@, "stage_changed")]
    /\ UNCHANGED <<sys, lockVars, batchVars, asyncVars, retryVars, eventVars, deletion, records, stampVars, registered, mode, n_images, total_frames, completed_frames,
                   failed_frames, extract_progress, stats, n_results, running_flag,
                   starts, stops>>

\* VideoProcessor.extract_frames as the pipeline calls it, where found says
\* whether the video file is there and written is the number of frames ffmpeg
\* writes. The pipeline runs inside asyncio.run() of its thread, and its
\* on_progress callback (on_extract_progress) sets task.extract_progress and
\* then calls asyncio.run() again, which raises RuntimeError because a loop is
\* running. The calls in the read loop are inside a bare try/except; the last
\* one, on_progress(1.0), is inside the outer try, whose handler returns
\* (None, 0). So the answer is (None, 0) with a missing video (nothing else
\* changes) and also after ffmpeg has run (extract_progress is then 1.0).
ExtractFrames(found, written) ==
    [frames_dir |-> "none", frame_count |-> 0,
     progress |-> IF found THEN 10 ELSE extract_progress]

\* The progress values (in tenths) ffmpeg reports while it runs.
ProgressLines == {3, 7}

\* extract_frames, the read loop: for an out_time_ms line of ffmpeg,
\* on_progress(progress) sets task.extract_progress; the asyncio.run() that
\* follows raises and the loop's bare except swallows it.
VideoExtractProgress(r, p) ==
    /\ runs[r].pc = "v_extract"
    /\ p > runs[r].reported
    /\ extract_progress' = p
    /\ runs' = [runs EXCEPT ![r].reported = p]
    /\ UNCHANGED <<sys, lockVars, batchVars, asyncVars, retryVars, eventVars, deletion, records, status_event, stampVars, registered, mode, status, n_images, total_frames,
                   completed_frames, failed_frames, stats, n_results, running_flag,
                   starts, stops, prev_status>>

\* An acceptance test that lets every answer of extract_frames pass: C22 must
\* notice the run that goes on without frames.
ExtractionFailedNever(res) == FALSE

\* if not frames_dir or frame_count == 0: raise Exception
ExtractionFailed(res) == res.frames_dir = "none" \/ res.frame_count = 0

\* extract_frames to its end, then the check of its answer: no frames raises.
\* extracts counts the extract_frames calls of the run, frame_count is the
\* count the last one answered.
VideoExtract(r) ==
    /\ runs[r].pc = "v_extract"
    /\ \E found \in BOOLEAN, written \in 0..MaxItems :
          LET res == ExtractFrames(found, written) IN
          /\ ~found => written = 0
          /\ runs[r].reported > 0 => found
          /\ extract_progress' = res.progress
          /\ runs' = [runs EXCEPT
                        ![r].frames = written,
                        ![r].extracts = @ + 1,
                        ![r].frame_count = res.frame_count,
                        ![r].pc = IF ExtractionFailed(res)
                                  THEN "v_except" ELSE "v_label"]
    /\ UNCHANGED <<sys, lockVars, batchVars, asyncVars, retryVars, eventVars, deletion, records, status_event, stampVars, registered, mode, status, n_images, total_frames,
                   completed_frames, failed_frames, stats, n_results, running_flag,
                   starts, stops, prev_status>>

\* except Exception: task.status = FAILED.
VideoFail(r) ==
    /\ runs[r].pc = "v_except"
    /\ SetStatus(FAILED)
    /\ Announce(FAILED, "task_error")
    /\ runs' = [runs EXCEPT ![r].pc = "v_error"]
    /\ UNCHANGED <<sys, lockVars, batchVars, asyncVars, retryVars, eventVars, deletion, records, stampVars, registered, mode, n_images, total_frames, completed_frames,
                   failed_frames, extract_progress, stats, n_results, running_flag,
                   starts, stops>>

\* ... then TASK_ERROR is published and the run ends.
VideoError(r) ==
    /\ runs[r].pc = "v_error"
    /\ runs' = [runs EXCEPT ![r].pc = "done",
                            ![r].events = Append(@, "task_error")]
    /\ UNCHANGED <<sys, lockVars, batchVars, asyncVars, retryVars, eventVars, deletion, records, status_event, stampVars, registered, mode, status, n_images, total_frames,
                   completed_frames, failed_frames, extract_progress, stats,
                   n_results, running_flag, starts, stops, prev_status>>

\* ------------------------------------- ParallelProcessor (core/parallel.py)
Items == 1..MaxItems

\* The deterministic collaborator: what detect() returns for an item it
\* succeeds on.
DetsOf(i) == IF i % 2 = 1 THEN <<"vehicle", "traffic_sign">> ELSE <<"pedestrian">>

\* ParallelProcessor._filter_processed: the paths with no record file.
FilterProcessed(paths, disk) == {i \in paths : disk[i] = "none"}

\* ParallelProcessor._process_single: (detections, error) of one item.
ProcessSingle(i, fail) ==
    IF i \in fail THEN [detections |-> <<>>, error |-> TRUE]
    ELSE [detections |-> DetsOf(i), error |-> FALSE]

ZeroResults == [success |-> 0, failed |-> 0, total_objects |-> 0, skipped |-> 0]

\* process_batch under _stats_lock, for each detection:
\* self.stats[category] = self.stats.get(category, 0) + 1
RECURSIVE StatsMerge(_, _)
StatsMerge(s, dets) ==
    IF dets = <<>> THEN s
    ELSE StatsMerge([s EXCEPT ![Head(dets)] = @ + 1], Tail(dets))

BQueued == {i \in Items : b_items[i] = "queued"}
BInFlight == {i \in Items : b_items[i] = "running"}

\* process_batch up to the submission of every remaining path (a new process:
\* a new ParallelProcessor with zero stats).
BatchStart(n, fail, resume) ==
    /\ sys = "batch"
    /\ b_pc \in {"idle", "done"}
    /\ b_runs < MaxBatchRuns
    /\ b_runs > 0 => (n = b_n /\ fail = b_fail)
    /\ LET todo == IF resume THEN FilterProcessed(1..n, b_disk) ELSE 1..n
           skipped == IF resume THEN n - Cardinality(todo) ELSE 0
       IN /\ b_items' = [i \in Items |-> IF i \in todo THEN "queued" ELSE "none"]
          /\ b_pc' = IF resume /\ todo = {} THEN "done" ELSE "collecting"
          /\ b_results' = [ZeroResults EXCEPT !.skipped = skipped]
    /\ b_n' = n
    /\ b_fail' = fail
    /\ b_resume' = resume
    /\ b_stats' = [c \in StatFields |-> 0]
    /\ b_invoked' = {}
    /\ b_exist0' = {i \in 1..n : b_disk[i] # "none"}
    /\ b_prev' = IF b_runs = 0 THEN "none"
                 ELSE IF b_pc = "idle" THEN "interrupted" ELSE "finished"
    /\ b_runs' = b_runs + 1
    /\ UNCHANGED <<sys, lockVars, dashVars, asyncVars, retryVars, eventVars, b_disk>>

\* The pool admits a submitted call when one of its max_workers threads is free.
BPoolHasRoom == Cardinality(BInFlight) < Workers

\* A pool thread takes the oldest submitted call: _process_single begins.
BWorkerStart ==
    /\ b_pc = "collecting"
    /\ BQueued # {}
    /\ BPoolHasRoom
    /\ b_items' = [b_items EXCEPT ![Min(BQueued)] = "running"]
    /\ b_invoked' = b_invoked \cup {Min(BQueued)}
    /\ UNCHANGED <<sys, lockVars, dashVars, asyncVars, retryVars, eventVars, b_pc, b_n, b_fail, b_resume, b_disk, b_stats,
                   b_results, b_exist0, b_prev, b_runs>>

\* _process_single returns.
BWorkerFinish(i) ==
    /\ b_pc = "collecting"
    /\ b_items[i] = "running"
    /\ b_items' = [b_items EXCEPT ![i] =
                      IF ProcessSingle(i, b_fail).error THEN "err" ELSE "ok"]
    /\ UNCHANGED <<sys, lockVars, dashVars, asyncVars, retryVars, eventVars, b_pc, b_n, b_fail, b_resume, b_disk, b_stats,
                   b_results, b_invoked, b_exist0, b_prev, b_runs>>

\* The collecting thread handles one future at a time.
BCollectorFree == \A j \in Items : b_items[j] # "saving"

\* as_completed loop, a future with an error: results["failed"] += 1.
BCollectError(i) ==
    /\ b_pc = "collecting"
    /\ BCollectorFree
    /\ b_items[i] = "err"
    /\ b_items' = [b_items EXCEPT ![i] = "collected"]
    /\ b_results' = [b_results EXCEPT !.failed = @ + 1]
    /\ UNCHANGED <<sys, lockVars, dashVars, asyncVars, retryVars, eventVars, b_pc, b_n, b_fail, b_resume, b_disk, b_stats,
                   b_invoked, b_exist0, b_prev, b_runs>>

\* as_completed loop, a future with detections: the stats are merged under
\* _stats_lock, then _save_result opens <stem>.json for writing (the file
\* exists from here on, empty).
BCollectOpen(i) ==
    /\ b_pc = "collecting"
    /\ BCollectorFree
    /\ b_items[i] = "ok"
    /\ b_stats' = StatsMerge(b_stats, ProcessSingle(i, b_fail).detections)
    /\ b_results' = [b_results EXCEPT
                        !.total_objects = @ + Len(ProcessSingle(i, b_fail).detections)]
    /\ b_disk' = [b_disk EXCEPT ![i] = "partial"]
    /\ b_items' = [b_items EXCEPT ![i] = "saving"]
    /\ UNCHANGED <<sys, lockVars, dashVars, asyncVars, retryVars, eventVars, b_pc, b_n, b_fail, b_resume, b_invoked,
                   b_exist0, b_prev, b_runs>>

\* save_annotation: json.dump into the open file, then results["success"] += 1.
BSaveWrite(i) ==
    /\ b_pc = "collecting"
    /\ b_items[i] = "saving"
    /\ b_disk' = [b_disk EXCEPT ![i] = "full"]
    /\ b_results' = [b_results EXCEPT !.success = @ + 1]
    /\ b_items' = [b_items EXCEPT ![i] = "collected"]
    /\ UNCHANGED <<sys, lockVars, dashVars, asyncVars, retryVars, eventVars, b_pc, b_n, b_fail, b_resume, b_stats, b_invoked,
                   b_exist0, b_prev, b_runs>>

\* Every future was handled: process_batch returns.
BatchFinish ==
    /\ b_pc = "collecting"
    /\ \A i \in Items : b_items[i] \in {"none", "collected"}
    /\ b_pc' = "done"
    /\ UNCHANGED <<sys, lockVars, dashVars, asyncVars, retryVars, eventVars, b_n, b_fail, b_resume, b_disk, b_items, b_stats,
                   b_results, b_invoked, b_exist0, b_prev, b_runs>>

\* The process is interrupted (killed) in the middle of a run: what it held in
\* memory is gone, the files it wrote stay as they are.
BatchInterrupt ==
    /\ b_pc = "collecting"
    /\ b_pc' = "idle"
    /\ b_items' = [i \in Items |-> "none"]
    /\ b_stats' = [c \in StatFields |-> 0]
    /\ b_results' = ZeroResults
    /\ UNCHANGED <<sys, lockVars, dashVars, asyncVars, retryVars, eventVars, b_n, b_fail, b_resume, b_disk, b_invoked,
                   b_exist0, b_prev, b_runs>>

BatchInit ==
    /\ b_pc = "idle"
    /\ b_n = 0
    /\ b_fail = {}
    /\ b_resume = FALSE
    /\ b_disk = [i \in Items |-> "none"]
    /\ b_items = [i \in Items |-> "none"]
    /\ b_stats = [c \in StatFields |-> 0]
    /\ b_results = ZeroResults
    /\ b_invoked = {}
    /\ b_exist0 = {}
    /\ b_prev = "none"
    /\ b_runs = 0

\* One run of process_batch.
BatchRunSteps ==
    \/ BWorkerStart
    \/ \E i \in Items : BWorkerFinish(i)
    \/ \E i \in Items : BCollectError(i)
    \/ \E i \in Items : BCollectOpen(i)
    \/ \E i \in Items : BSaveWrite(i)
    \/ BatchFinish

\* Runs of process_batch over the same paths and output directory, any of
\* which may be interrupted.
BatchNext ==
    \/ \E n \in Items, fail \in SUBSET Items, resume \in BOOLEAN :
          BatchStart(n, fail, resume)
    \/ BatchInterrupt
    \/ BatchRunSteps

\* One uninterrupted run of process_batch.
BatchFirstStart(n, fail, resume) == b_runs = 0 /\ BatchStart(n, fail, resume)

BatchRunNext ==
    \/ \E n \in Items, fail \in SUBSET Items, resume \in BOOLEAN :
          BatchFirstStart(n, fail, resume)
    \/ BatchRunSteps

\* --------------------------- AsyncDetector (scripts/video_to_dataset_async.py)
\* What one attempt of _detect_with_retry can meet: an answer with detections
\* (maybe none), a 429 answer, a failure the loop records in last_error
\* (timeout, HTTP error, unparsable answer), or an exception the loop does not
\* catch.
AttemptOutcomes == {"ok", "limited", "failed", "raised"}

AsyncDetChoices == {<<>>, <<"vehicle", "traffic_sign">>}

\* The keys of the stats dictionary of run_labeling_async.
AsyncStatKeys == {"pedestrian", "vehicle", "traffic_sign", "construction"}

\* detect_and_save, "if cat in stats: stats[cat] += 1" for one detection.
AsyncCount(s, cat) == IF cat \in AsyncStatKeys THEN [s EXCEPT ![cat] = @ + 1] ELSE s

RECURSIVE AsyncCountAll(_, _)
AsyncCountAll(s, dets) ==
    IF dets = <<>> THEN s ELSE AsyncCountAll(AsyncCount(s, Head(dets)), Tail(dets))

\* The detections detect_and_save refines: generic traffic signs.
RECURSIVE Signs(_)
Signs(dets) ==
    IF dets = <<>> THEN 0
    ELSE (IF Head(dets) = "traffic_sign" THEN 1 ELSE 0) + Signs(Tail(dets))

\* A detect_and_save task. st: none (no task), wait (on the semaphore), detect
\* (holds a permit, inside _detect_with_retry), refine (inside
\* classify_sign_rag), ret_ok / ret_err (returned without / with an error), exc
\* (raised), counted (seen by the as_completed loop). Inside detect, attempt
\* is the number of attempts of _detect_with_retry that have failed and
\* last_error whether last_error is set; once detect has returned, attempt is
\* DetectRetries when the loop ran out of attempts (0 when an attempt
\* answered or raised) and last_error whether an error was returned.
ATask(st, attempt, last_error, dets, signs) ==
    [st |-> st, attempt |-> attempt, last_error |-> last_error, dets |-> dets,
     signs |-> signs]

NoTask == ATask("none", 0, FALSE, <<>>, 0)

AWaiting == {i \in Items : a_tasks[i].st = "wait"}
ADetecting == {i \in Items : a_tasks[i].st = "detect"}
ARefining == {i \in Items : a_tasks[i].st = "refine"}

\* run_labeling_async up to the creation of the tasks: the frames with no
\* record are the work, an AsyncDetector with max_concurrent = workers gates
\* them. disk0 is what an earlier run left in the output directory.
AsyncStart(n, rag, disk0) ==
    /\ sys = "async"
    /\ a_pc = "idle"
    /\ \A i \in Items : i > n => disk0[i] = "none"
    /\ LET todo == {i \in 1..n : disk0[i] = "none"}
       IN /\ a_tasks' = [i \in Items |->
                            IF i \in todo THEN ATask("wait", 0, FALSE, <<>>, 0) ELSE NoTask]
          /\ a_pc' = IF todo = {} THEN "done" ELSE "gather"
    /\ a_n' = n
    /\ a_rag' = rag
    /\ a_disk' = disk0
    /\ a_sem' = Workers
    /\ UNCHANGED <<sys, lockVars, dashVars, batchVars, retryVars, eventVars, a_stats, a_count>>

\* The semaphore has a permit left.
SemFree == a_sem > 0

\* AsyncDetector.detect, "async with self.semaphore": the longest-waiting task
\* takes a permit.
AsyncAcquire ==
    /\ a_pc = "gather"
    /\ AWaiting # {}
    /\ SemFree
    /\ a_sem' = a_sem - 1
    /\ a_tasks' = [a_tasks EXCEPT ![Min(AWaiting)].st = "detect"]
    /\ UNCHANGED <<sys, lockVars, dashVars, batchVars, retryVars, eventVars, a_pc, a_n, a_rag, a_disk, a_stats, a_count>>

\* detect_and_save from the return of detect (dets, no error) to its next
\* remote call or its end: with use_rag and a generic sign it goes into
\* classify_sign_rag, otherwise it counts the detections and writes the record.
AfterDetect(i, failed, dets) ==
    IF a_rag /\ Signs(dets) > 0
    THEN /\ a_tasks' = [a_tasks EXCEPT ![i] = ATask("refine", failed, FALSE, dets, Signs(dets))]
         /\ UNCHANGED <<a_stats, a_disk>>
    ELSE /\ a_tasks' = [a_tasks EXCEPT ![i] = ATask("ret_ok", failed, FALSE, <<>>, 0)]
         /\ a_stats' = AsyncCountAll(a_stats, dets)
         /\ a_disk' = [a_disk EXCEPT ![i] = "full"]

\* One attempt of _detect_with_retry, with what follows it without a remote
\* call in between. The permit is given back when detect returns or raises.
AsyncAttempt(i, outcome, dets) ==
    /\ a_pc = "gather"
    /\ a_tasks[i].st = "detect"
    /\ outcome = "ok" \/ dets = <<>>
    /\ LET t == a_tasks[i]
           last == IF outcome = "failed" THEN TRUE ELSE t.last_error
       IN CASE outcome = "ok" ->
                 /\ a_sem' = a_sem + 1
                 /\ AfterDetect(i, 0, dets)
            [] outcome = "raised" ->
                 /\ a_sem' = a_sem + 1
                 /\ a_tasks' = [a_tasks EXCEPT ![i] = ATask("exc", 0, FALSE, <<>>, 0)]
                 /\ UNCHANGED <<a_stats, a_disk>>
            [] outcome \in {"limited", "failed"} /\ t.attempt + 1 < DetectRetries ->
                 /\ a_tasks' = [a_tasks EXCEPT ![i].attempt = @ + 1,
                                               ![i].last_error = last]
                 /\ UNCHANGED <<a_sem, a_stats, a_disk>>
            [] outcome \in {"limited", "failed"} /\ t.attempt + 1 >= DetectRetries ->
                 \* the loop is over: return [], last_error
                 /\ a_sem' = a_sem + 1
                 /\ IF last
                    THEN /\ a_tasks' = [a_tasks EXCEPT ![i] = ATask("ret_err", DetectRetries, TRUE, <<>>, 0)]
                         /\ UNCHANGED <<a_stats, a_disk>>
                    ELSE AfterDetect(i, DetectRetries, <<>>)
    /\ UNCHANGED <<sys, lockVars, dashVars, batchVars, retryVars, eventVars, a_pc, a_n, a_rag, a_count>>

\* classify_sign_rag returns (it catches every exception): the next sign is
\* refined, or the detections are counted and the record written.
AsyncRefineDone(i) ==
    /\ a_pc = "gather"
    /\ a_tasks[i].st = "refine"
    /\ IF a_tasks[i].signs > 1
       THEN /\ a_tasks' = [a_tasks EXCEPT ![i].signs = @ - 1]
            /\ UNCHANGED <<a_stats, a_disk>>
       ELSE /\ a_tasks' = [a_tasks EXCEPT ![i] = ATask("ret_ok", a_tasks[i].attempt, FALSE, <<>>, 0)]
            /\ a_stats' = AsyncCountAll(a_stats, a_tasks[i].dets)
            /\ a_disk' = [a_disk EXCEPT ![i] = "full"]
    /\ UNCHANGED <<sys, lockVars, dashVars, batchVars, retryVars, eventVars, a_pc, a_n, a_rag, a_sem, a_count>>

\* One iteration of the as_completed loop of run_labeling_async.
AsyncCollect(i) ==
    /\ a_pc = "gather"
    /\ a_tasks[i].st \in {"ret_ok", "ret_err", "exc"}
    /\ a_count' = IF a_tasks[i].st = "ret_ok"
                  THEN [a_count EXCEPT !.success = @ + 1]
                  ELSE [a_count EXCEPT !.errors = @ + 1]
    /\ a_tasks' = [a_tasks EXCEPT ![i].st = "counted"]
    /\ UNCHANGED <<sys, lockVars, dashVars, batchVars, retryVars, eventVars, a_pc, a_n, a_rag, a_disk, a_sem, a_stats>>

AsyncFinish ==
    /\ a_pc = "gather"
    /\ \A i \in Items : a_tasks[i].st \in {"none", "counted"}
    /\ a_pc' = "done"
    /\ UNCHANGED <<sys, lockVars, dashVars, batchVars, retryVars, eventVars, a_n, a_rag, a_disk, a_sem, a_tasks,
                   a_stats, a_count>>

AsyncInit ==
    /\ a_pc = "idle"
    /\ a_n = 0
    /\ a_rag = FALSE
    /\ a_disk = [i \in Items |-> "none"]
    /\ a_sem = 0
    /\ a_tasks = [i \in Items |-> NoTask]
    /\ a_stats = [c \in AsyncStatKeys |-> 0]
    /\ a_count = [success |-> 0, errors |-> 0]

AsyncNext ==
    \/ \E n \in Items, rag \in BOOLEAN, disk0 \in [Items -> {"none", "full"}] :
          AsyncStart(n, rag, disk0)
    \/ AsyncAcquire
    \/ \E i \in Items, outcome \in AttemptOutcomes, dets \in AsyncDetChoices :
          AsyncAttempt(i, outcome, dets)
    \/ \E i \in Items : AsyncRefineDone(i)
    \/ \E i \in Items : AsyncCollect(i)
    \/ AsyncFinish

\* ------------------------------------------------ retry_api_call (utils/retry.py)
\* The Retry-After values a 429 answer can carry.
Hints == {-1, 0, 1, 9}

\* An exception of func(): rate tells what _is_rate_limit_error finds, hint is
\* the numeric Retry-After header of e.response, <<>> when there is none.
Error(rate, hint) == [rate |-> rate, hint |-> hint]

Errors ==
    {Error(FALSE, <<>>), Error(TRUE, <<>>)} \cup {Error(TRUE, <<h>>) : h \in Hints}

IsRateLimitError(e) == e.rate

\* _get_retry_after: the header as a float, <<>> for None.
GetRetryAfter(e) == e.hint

\* A faulty wait_time that never reads the Retry-After header: C12 must notice
\* the hint that is not waited for.
WaitTimeNoHint(e, current_delay) ==
    IF IsRateLimitError(e) THEN current_delay * 2 ELSE current_delay

\* wait_time of one failed attempt:
\* current_delay, or for a rate-limit error _get_retry_after(e) or (current_delay * 2);
\* "or" takes its right side when the left is None or 0.0.
WaitTime(e, current_delay) ==
    IF IsRateLimitError(e)
    THEN IF GetRetryAfter(e) # <<>> /\ GetRetryAfter(e)[1] # 0
         THEN GetRetryAfter(e)[1]
         ELSE current_delay * 2
    ELSE current_delay

\* A faulty loop test that gives up one attempt early: C11 must notice the
\* missing call.
MoreAttemptsShort(attempt, max_retries) == attempt < max_retries - 2

\* "if attempt < max_retries - 1"
MoreAttempts(attempt, max_retries) == attempt < max_retries - 1

\* A faulty observer call passing the loop variable itself: C10 must notice
\* the attempt numbers 0..k-1.
OnRetryZeroBased(seen, attempt) == Append(seen, attempt)

\* "on_retry(attempt + 1, e)" as a silent observer records it.
OnRetry(seen, attempt) == Append(seen, attempt + 1)

RetryCall(max_retries, on_retry) ==
    /\ sys = "retry"
    /\ r_pc = "idle"
    /\ r_max_retries' = max_retries
    /\ r_on_retry' = on_retry
    /\ r_current_delay' = RetryDelay
    /\ IF max_retries > 0
       THEN /\ r_pc' = "loop"
            /\ UNCHANGED r_outcome
       ELSE \* range(0) is empty: "raise last_exception" with last_exception None
            /\ r_pc' = "done"
            /\ r_outcome' = "type_error"
    /\ UNCHANGED <<sys, lockVars, dashVars, batchVars, asyncVars, eventVars, r_attempt, r_errors, r_calls,
                   r_waits, r_seen, r_result, r_last_exception>>

\* One iteration of the loop in which func() returns.
RetryReturn ==
    /\ r_pc = "loop"
    /\ r_calls' = r_calls + 1
    /\ r_result' = r_calls + 1
    /\ r_outcome' = "returned"
    /\ r_pc' = "done"
    /\ UNCHANGED <<sys, lockVars, dashVars, batchVars, asyncVars, eventVars, r_max_retries, r_on_retry,
                   r_attempt, r_current_delay, r_errors, r_waits, r_seen,
                   r_last_exception>>

\* One iteration of the loop in which func() raises e. After the last
\* iteration the loop is left and last_exception raised.
RetryFail(e) ==
    /\ r_pc = "loop"
    /\ r_calls' = r_calls + 1
    /\ r_errors' = Append(r_errors, e)
    /\ r_last_exception' = r_calls + 1
    /\ UNCHANGED <<r_max_retries, r_on_retry, r_result>>
    /\ IF MoreAttempts(r_attempt, r_max_retries)
       THEN LET wait_time == WaitTime(e, r_current_delay)
            IN CASE r_on_retry = "raising" ->
                      \* the exception of on_retry leaves retry_api_call
                      /\ r_seen' = OnRetry(r_seen, r_attempt)
                      /\ r_outcome' = "observer_error"
                      /\ r_pc' = "done"
                      /\ UNCHANGED <<r_attempt, r_current_delay, r_waits>>
                 [] r_on_retry # "raising" /\ wait_time < 0 ->
                      \* time.sleep raises ValueError for a negative length
                      /\ r_seen' = IF r_on_retry = "silent"
                                   THEN OnRetry(r_seen, r_attempt) ELSE r_seen
                      /\ r_outcome' = "sleep_error"
                      /\ r_pc' = "done"
                      /\ UNCHANGED <<r_attempt, r_current_delay, r_waits>>
                 [] r_on_retry # "raising" /\ wait_time >= 0 ->
                      /\ r_seen' = IF r_on_retry = "silent"
                                   THEN OnRetry(r_seen, r_attempt) ELSE r_seen
                      /\ r_waits' = Append(r_waits, wait_time)
                      /\ r_current_delay' = r_current_delay * BackoffFactor
                      /\ r_attempt' = r_attempt + 1
                      /\ UNCHANGED <<r_pc, r_outcome>>
       ELSE /\ r_outcome' = "last_exception"
            /\ r_pc' = "done"
            /\ UNCHANGED <<r_attempt, r_current_delay, r_waits, r_seen>>
    /\ UNCHANGED <<sys, lockVars, dashVars, batchVars, asyncVars, eventVars>>

RetryInit ==
    /\ r_pc = "idle"
    /\ r_max_retries = 0
    /\ r_on_retry = "none"
    /\ r_attempt = 0
    /\ r_current_delay = 0
    /\ r_errors = <<>>
    /\ r_calls = 0
    /\ r_waits = <<>>
    /\ r_seen = <<>>
    /\ r_outcome = "none"
    /\ r_result = 0
    /\ r_last_exception = 0

RetryNext ==
    \/ \E max_retries \in 0..MaxRetries, on_retry \in {"none", "silent", "raising"} :
          RetryCall(max_retries, on_retry)
    \/ RetryReturn
    \/ \E e \in Errors : RetryFail(e)

\* ------------------------------------------------------ EventBus (events.py)
TaskIds == {"t1", "t2"}

\* subscribe(task_id=None)
GlobalScope == "all"

QueueIds == 1..Len(e_queues)

\* An Event of the publishing thread: its task_id and its place in the order
\* the thread publishes.
Event(task_id, seq) == [task_id |-> task_id, seq |-> seq]

\* An asyncio.Queue returned by subscribe: what it was subscribed to, whether
\* unsubscribe has returned for it (and how many events it held then), and
\* every event put on it so far, oldest first.
Queue(scope) == [scope |-> scope, unsubscribed |-> FALSE, closed_len |-> 0, items |-> <<>>]

NoPublish == [pc |-> "idle", event |-> Event("none", 0), todo |-> {}]

\* EventBus.subscribe(task_id): a new queue, added under the lock to the
\* global set or to the set of its task.
Subscribe(scope) ==
    /\ sys = "events"
    /\ Len(e_queues) < MaxQueues
    /\ e_queues' = Append(e_queues, Queue(scope))
    /\ IF scope = GlobalScope
       THEN /\ e_global_subscribers' = e_global_subscribers \cup {Len(e_queues) + 1}
            /\ UNCHANGED e_subscribers
       ELSE /\ e_subscribers' = [e_subscribers EXCEPT ![scope] = @ \cup {Len(e_queues) + 1}]
            /\ UNCHANGED e_global_subscribers
    /\ UNCHANGED <<sys, lockVars, dashVars, batchVars, asyncVars, retryVars, e_publisher, e_published>>

\* EventBus.unsubscribe(queue, task_id) as the websocket handlers call it, with
\* the task_id the queue was subscribed with.
Unsubscribe(q) ==
    /\ sys = "events"
    /\ q \in QueueIds
    /\ ~e_queues[q].unsubscribed
    /\ IF e_queues[q].scope = GlobalScope
       THEN /\ e_global_subscribers' = e_global_subscribers \ {q}
            /\ UNCHANGED e_subscribers
       ELSE /\ e_subscribers' = [e_subscribers EXCEPT ![e_queues[q].scope] = @ \ {q}]
            /\ UNCHANGED e_global_subscribers
    /\ e_queues' = [e_queues EXCEPT ![q].unsubscribed = TRUE,
                                    ![q].closed_len = Len(e_queues[q].items)]
    /\ UNCHANGED <<sys, lockVars, dashVars, batchVars, asyncVars, retryVars, e_publisher, e_published>>

\* A faulty copy that takes the queues of every task: C16 must notice the
\* event on a queue of another task.
AllSubscribersAnyTask(task_id) ==
    UNION {e_subscribers[t] : t \in TaskIds} \cup e_global_subscribers

\* all_subscribers of publish: the copies taken under the lock.
AllSubscribers(task_id) == e_subscribers[task_id] \cup e_global_subscribers

\* EventBus.publish, first part: under the lock, copy the subscribers of the
\* event's task and the global ones.
PublishCopy(task_id) ==
    /\ sys = "events"
    /\ e_publisher.pc = "idle"
    /\ Len(e_published) < MaxEvents
    /\ LET event == Event(task_id, Len(e_published) + 1)
       IN /\ e_publisher' = [pc |-> "put", event |-> event, todo |-> AllSubscribers(task_id)]
          /\ e_published' = Append(e_published,
                 [event |-> event,
                  subscribed |-> {q \in QueueIds : ~e_queues[q].unsubscribed}])
    /\ UNCHANGED <<sys, lockVars, dashVars, batchVars, asyncVars, retryVars, e_subscribers,
                   e_global_subscribers, e_queues>>

\* A faulty put that places the event at the head of the queue: C15 must
\* notice the order.
PutFront(items, event) == <<event>> \o items

\* asyncio.Queue.put on a queue without size limit: the event goes to the end.
Put(items, event) == Append(items, event)

\* EventBus.publish, the loop: "await queue.put(event)" for one queue of the
\* copy (the queues have no size limit, put never waits).
PublishPut(q) ==
    /\ sys = "events"
    /\ e_publisher.pc = "put"
    /\ q \in e_publisher.todo
    /\ e_queues' = [e_queues EXCEPT ![q].items = Put(@, e_publisher.event)]
    /\ e_publisher' = [e_publisher EXCEPT !.todo = @ \ {q}]
    /\ UNCHANGED <<sys, lockVars, dashVars, batchVars, asyncVars, retryVars, e_subscribers,
                   e_global_subscribers, e_published>>

\* EventBus.publish returns.
PublishReturn ==
    /\ sys = "events"
    /\ e_publisher.pc = "put"
    /\ e_publisher.todo = {}
    /\ e_publisher' = NoPublish
    /\ UNCHANGED <<sys, lockVars, dashVars, batchVars, asyncVars, retryVars, e_subscribers,
                   e_global_subscribers, e_queues, e_published>>

EventsInit ==
    /\ e_subscribers = [t \in TaskIds |-> {}]
    /\ e_global_subscribers = {}
    /\ e_queues = <<>>
    /\ e_publisher = NoPublish
    /\ e_published = <<>>

\* Subscribers coming, the publishing thread publishing.
EventsRunNext ==
    \/ \E scope \in TaskIds \cup {GlobalScope} : Subscribe(scope)
    \/ \E task_id \in TaskIds : PublishCopy(task_id)
    \/ \E q \in 1..MaxQueues : PublishPut(q)
    \/ PublishReturn

EventsNext ==
    \/ EventsRunNext
    \/ \E q \in 1..MaxQueues : Unsubscribe(q)

\* ------------------------------------------------- the locks of the core
\* TaskManager._lock, LabelingEngine._lock and EventBus._lock (threading.Lock,
\* not reentrant). The server runs its handlers in one thread, the event loop;
\* every started task has an engine thread of its own.
LockNames == {"registry", "engine", "bus"}

LockThreads == {"server", "engine1", "engine2"}

\* One step of a thread as far as the locks are concerned: it acquires or
\* releases a lock, calls a collaborator (detector, ffmpeg, packaging), or
\* puts an event into a subscriber's queue.
Step(do, lock) == [do |-> do, lock |-> lock]

\* "with lock:" around statements that take no other lock and call nothing
\* outside.
Hold(lock) == <<Step("acquire", lock), Step("release", lock)>>

RECURSIVE Deliveries(_)
Deliveries(n) == IF n = 0 THEN <<>> ELSE <<Step("deliver", "none")>> \o Deliveries(n - 1)

\* A publish that keeps the bus lock while it fills the queues: C29 must
\* notice the lock held across the deliveries.
PublishStepsUnderLock(n) ==
    <<Step("acquire", "bus")>> \o Deliveries(n) \o <<Step("release", "bus")>>

\* EventBus.publish to n subscribers: the sets are copied under the lock, the
\* queues are filled after it.
PublishSteps(n) == Hold("bus") \o Deliveries(n)

\* TaskManager.delete_task: under the registry lock, and for a RUNNING task
\* with LabelingEngine.stop_task (the engine lock) inside it.
DeleteSteps(running) ==
    IF running
    THEN <<Step("acquire", "registry")>> \o Hold("engine") \o <<Step("release", "registry")>>
    ELSE Hold("registry")

\* What the server thread does for a request and what an engine thread does
\* in its pipeline.
ServerOps == {"create", "get", "start", "stop", "delete", "delete_running",
              "subscribe", "unsubscribe"}

EngineOps == {"check", "pop", "collaborator", "publish"}

OpsOf(t) == IF t = "server" THEN ServerOps ELSE EngineOps

\* The steps of an operation; n is the number of queues a publish inside it
\* delivers to.
Steps(op, n) ==
    CASE op = "create" -> Hold("registry")
      [] op = "get" -> Hold("registry")
      [] op = "start" -> Hold("registry") \o Hold("engine") \o PublishSteps(n)
      [] op = "stop" -> Hold("registry") \o Hold("engine")
      [] op = "delete" -> DeleteSteps(FALSE)
      [] op = "delete_running" -> DeleteSteps(TRUE)
      [] op = "subscribe" -> Hold("bus")
      [] op = "unsubscribe" -> Hold("bus")
      [] op = "check" -> Hold("engine")
      [] op = "pop" -> Hold("engine")
      [] op = "collaborator" -> <<Step("call", "none")>>
      [] op = "publish" -> PublishSteps(n)

Idle == [op |-> "idle", n |-> 0, pc |-> 0]

\* A thread starts an operation.
LockBegin(t, op, n) ==
    /\ sys = "locks"
    /\ l_threads[t] = Idle
    /\ op \in OpsOf(t)
    /\ n = 0 \/ op \in {"start", "publish"}
    /\ l_threads' = [l_threads EXCEPT ![t] = [op |-> op, n |-> n, pc |-> 1]]
    /\ UNCHANGED <<sys, dashVars, batchVars, asyncVars, retryVars, eventVars, l_holder>>

\* The step a busy thread is about to take.
NextStep(t) == Steps(l_threads[t].op, l_threads[t].n)[l_threads[t].pc]

\* A thread takes its next step; acquire waits until the lock is free.
LockStep(t) ==
    /\ sys = "locks"
    /\ l_threads[t] # Idle
    /\ LET step == NextStep(t)
           last == l_threads[t].pc = Len(Steps(l_threads[t].op, l_threads[t].n))
       IN /\ CASE step.do = "acquire" ->
                    /\ l_holder[step.lock] = "none"
                    /\ l_holder' = [l_holder EXCEPT ![step.lock] = t]
               [] step.do = "release" ->
                    l_holder' = [l_holder EXCEPT ![step.lock] = "none"]
               [] OTHER -> UNCHANGED l_holder
          /\ l_threads' = [l_threads EXCEPT ![t] =
                              IF last THEN Idle ELSE [@ EXCEPT !.pc = @ + 1]]
    /\ UNCHANGED <<sys, dashVars, batchVars, asyncVars, retryVars, eventVars>>

LocksInit ==
    /\ l_holder = [k \in LockNames |-> "none"]
    /\ l_threads = [t \in LockThreads |-> Idle]

LocksNext ==
    \/ \E t \in LockThreads, op \in ServerOps \cup EngineOps, n \in 0..MaxQueues :
          LockBegin(t, op, n)
    \/ \E t \in LockThreads : LockStep(t)

\* ------------------------------------------------------------ specification
ZeroStats == [c \in StatFields |-> 0]

DashInit ==
    /\ registered = FALSE
    /\ mode = "none"
    /\ status = "none"
    /\ n_images = 0
    /\ total_frames = 0
    /\ completed_frames = 0
    /\ failed_frames = 0
    /\ extract_progress = 0
    /\ stats = ZeroStats
    /\ n_results = 0
    /\ running_flag = "absent"
    /\ runs = <<>>
    /\ starts = 0
    /\ stops = 0
    /\ prev_status = "none"
    /\ status_event = "none"
    /\ created_at = 0
    /\ started_at = 0
    /\ completed_at = 0
    /\ now = 0
    /\ stamp_writes = [started_at |-> 0, completed_at |-> 0]
    /\ deletion = NoDeletion
    /\ records = {}

Init ==
    /\ sys \in Systems
    /\ DashInit
    /\ BatchInit
    /\ AsyncInit
    /\ RetryInit
    /\ EventsInit
    /\ LocksInit

\* The engine threads and their pools.
EngineNext ==
    \/ \E r \in RunIds : DispatchCheck(r)
    \/ \E r \in RunIds : Submit(r)
    \/ \E r \in RunIds : WorkerStart(r)
    \/ \E r \in RunIds, i \in 1..MaxItems : WorkerFinish(r, i)
    \/ \E r \in RunIds, i \in 1..MaxItems : Collect(r, i)
    \/ \E r \in RunIds : ProcessImagesComplete(r)
    \/ \E r \in RunIds : PopRunning(r)
    \/ \E r \in RunIds : VideoBegin(r)
    \/ \E r \in RunIds, p \in ProgressLines : VideoExtractProgress(r, p)
    \/ \E r \in RunIds : VideoExtract(r)
    \/ \E r \in RunIds : VideoFail(r)
    \/ \E r \in RunIds : VideoError(r)

\* The dashboard: requests in any order, beside the engine threads.
DashNext ==
    \/ \E n \in 1..MaxItems : CreateTask(n)
    \/ CreateVideoTask
    \/ StartTask
    \/ StopTask
    \/ EngineNext

\* One task, started once and never stopped.
FirstStart == starts = 0 /\ StartTask

DashRunNext ==
    \/ \E n \in 1..MaxItems : CreateTask(n)
    \/ CreateVideoTask
    \/ FirstStart
    \/ EngineNext

\* One task, started once, that may be stopped and deleted at any time.
DeleteNext ==
    \/ DashRunNext
    \/ StopTask
    \/ DeleteTask

\* Every component, each doing one undisturbed run.
RunNext ==
    \/ DashRunNext
    \/ BatchRunNext
    \/ AsyncNext
    \/ RetryNext
    \/ EventsRunNext
    \/ LocksNext

Next ==
    \/ DashNext
    \/ BatchNext
    \/ AsyncNext
    \/ RetryNext
    \/ EventsNext
    \/ LocksNext

Spec == Init /\ [][Next]_vars

SpecRun == Init /\ [][RunNext]_vars

SpecDelete == Init /\ [][DeleteNext]_vars

\* One undisturbed run where the engine thread and its pool threads are
\* scheduled again and again and every collaborator call returns: a step of
\* the engine that stays possible is taken.
SpecRunFair == Init /\ [][RunNext]_vars /\ WF_vars(EngineNext)

\* ==================================================================== claims
\* ------------------------------------------------------------ C1
\* C1: for every task, in every reachable state (restarts of a PAUSED or
\* COMPLETED task included), completed_frames + failed_frames <= total_frames.
C1_CountersWithinTotal ==
    registered => completed_frames + failed_frames <= total_frames

\* ------------------------------------------------------------ C2
\* The documented state machine (every stage may be stopped, every running
\* state and PAUSED may fail, PAUSED resumes into the first running state of
\* its mode).
DocumentedEdges ==
    {<<PENDING, RUNNING>>, <<RUNNING, COMPLETED>>, <<PAUSED, RUNNING>>,
     <<PENDING, EXTRACTING>>, <<EXTRACTING, RUNNING>>, <<RUNNING, VISUALIZING>>,
     <<VISUALIZING, PACKAGING>>, <<PACKAGING, COMPLETED>>, <<PAUSED, EXTRACTING>>}
    \cup {<<s, PAUSED>> : s \in RunningFamily}
    \cup {<<s, FAILED>> : s \in RunningFamily \cup {PAUSED}}

\* C2: every change of Task.status follows an edge of the documented state
\* machine: COMPLETED and FAILED are never left, and PENDING, COMPLETED and
\* FAILED never become PAUSED.
C2_StatusFollowsStateMachine ==
    prev_status # "none" => <<prev_status, status>> \in DocumentedEdges

\* ------------------------------------------------------------ C3
\* A collaborator of the run failed: the video was missing or ffmpeg wrote no
\* frame.
ExtractionDone(r) == runs[r].pc \in {"v_except", "v_error", "done"}
CollaboratorFailed == \E r \in RunIds : ExtractionDone(r) /\ runs[r].frames = 0

VideoChain ==
    {<<"none", PENDING>>, <<PENDING, EXTRACTING>>, <<EXTRACTING, RUNNING>>,
     <<RUNNING, VISUALIZING>>, <<VISUALIZING, PACKAGING>>, <<PACKAGING, COMPLETED>>}

\* C3: in a VIDEO run with no failure and no stop request, Task.status takes
\* the values PENDING, EXTRACTING, RUNNING, VISUALIZING, PACKAGING, COMPLETED,
\* each once and in that order.
C3_VideoStatusSequence ==
    (mode = VIDEO /\ stops = 0 /\ starts <= 1 /\ ~CollaboratorFailed)
        => <<prev_status, status>> \in VideoChain

\* ------------------------------------------------------------ C4
\* C4: in IMAGES mode status becomes COMPLETED only from RUNNING and only when
\* all items are done, and a run on which stop was requested before every
\* item was dispatched ends PAUSED, not COMPLETED.
C4_CompletedMeansAllDone ==
    /\ (mode = IMAGES /\ status = COMPLETED)
          => /\ prev_status = RUNNING
             /\ completed_frames + failed_frames = total_frames
    /\ (mode = IMAGES /\ starts = 1 /\ runs[1].pc \in {"pop", "done"}
          /\ Cardinality(Submitted(1)) < runs[1].npaths)
          => status = PAUSED

\* ------------------------------------------------------------ C5
\* The records one uninterrupted run leaves: a complete record for every item
\* the collaborator succeeds on, none for the others.
UninterruptedRecords(n, fail) ==
    [i \in Items |-> IF i \in 1..n /\ i \notin fail THEN "full" ELSE "none"]

\* An uninterrupted first run over an empty output directory leaves exactly
\* those records.
UninterruptedRunRecords ==
    (sys = "batch" /\ b_pc = "done" /\ b_runs = 1)
        => b_disk = UninterruptedRecords(b_n, b_fail)

\* C5: a run with resume enabled that follows an interrupted run invokes the
\* collaborator on exactly the total - N items that had no record (N being the
\* number of records the interrupted run left), never on an item whose record
\* exists, and ends with the same records as one uninterrupted run.
C5_ResumeIdempotence ==
    (sys = "batch" /\ b_pc = "done" /\ b_runs = 2 /\ b_prev = "interrupted" /\ b_resume)
        => /\ b_invoked = (1..b_n) \ b_exist0
           /\ Cardinality(b_invoked) = b_n - Cardinality(b_exist0)
           /\ b_disk = UninterruptedRecords(b_n, b_fail)

\* The part of C5 the code keeps: the resumed run invokes the collaborator on
\* exactly the items that had no record file.
ResumeSkipsExistingRecords ==
    (sys = "batch" /\ b_pc = "done" /\ b_resume)
        => /\ b_invoked = (1..b_n) \ b_exist0
           /\ b_results.skipped = Cardinality(b_exist0)

\* ------------------------------------------------------------ C8
\* C8: an undisturbed run over n items of which a subset F fails processes
\* every item and ends with failed_frames = |F|, completed_frames = n - |F|
\* and status COMPLETED.
C8_ItemFailureNeverAborts ==
    \A r \in RunIds :
        (mode = IMAGES /\ runs[r].pc = "done")
            => /\ \A i \in 1..runs[r].npaths : runs[r].items[i].st = "collected"
               /\ failed_frames = runs[r].errs
               /\ completed_frames = runs[r].npaths - runs[r].errs
               /\ status = COMPLETED

\* A finished run in which some items failed and some succeeded.
C8_Witness ==
    \E r \in RunIds :
        /\ mode = IMAGES /\ runs[r].pc = "done"
        /\ runs[r].errs > 0 /\ runs[r].errs < runs[r].npaths
        /\ failed_frames > 0 /\ completed_frames > 0

\* ------------------------------------------------------------ C9
\* C9: at the end of an undisturbed run the category counters add up to the
\* number of detections returned for the successfully processed items (n * d
\* when each of n items succeeds with d detections), completed_frames counts
\* those items, and one FrameResult was recorded per item. The same for the
\* stats of a finished process_batch run: they add up to the detections of the
\* items that succeeded, each of which was counted as a success.
BatchSucceeded == (1..b_n) \ b_fail

BatchDetections == [i \in Items |-> Len(ProcessSingle(i, b_fail).detections)]

C6_PrimaryCallsWithinPool ==
    /\ \A r \in RunIds : Cardinality(InFlight(r)) <= Workers
    /\ Cardinality(BInFlight) <= Workers
    /\ Cardinality(ADetecting) <= Workers
    /\ a_pc = "gather" => a_sem + Cardinality(ADetecting) = Workers

\* C6 witness: a process_batch run with every pool thread busy while a further
\* submitted item has to wait.
C6_Witness ==
    /\ sys = "batch"
    /\ Cardinality(BInFlight) = Workers
    /\ BQueued # {}

\* The same situation at the semaphore of the AsyncDetector and in the pool of
\* an engine run.
C6_SemaphoreFull ==
    /\ sys = "async"
    /\ Cardinality(ADetecting) = Workers
    /\ a_sem = 0
    /\ AWaiting # {}

C6_EnginePoolFull ==
    \E r \in RunIds : Cardinality(InFlight(r)) = Workers /\ Queued(r) # {}

\* C7: in the async processor with max_concurrent = P = Workers, the remote
\* calls in flight of either kind, primary detection calls and classify_sign_rag
\* refinement calls together, never exceed P.
C7_RemoteCallsWithinPermits ==
    Cardinality(ADetecting) + Cardinality(ARefining) <= Workers

\* What does hold: the permits bound the detection calls alone, a task inside
\* classify_sign_rag holds none.
C7_RefinementHoldsNoPermit ==
    a_pc = "gather" => a_sem = Workers - Cardinality(ADetecting)

\* C10: retry_api_call whose operation fails exactly k times, 0 <= k <
\* max_retries, and then succeeds returns the result of the successful call,
\* calls on_retry exactly k times with the attempt numbers 1..k in order, waits
\* exactly k times and raises no error. The caller's observer is one that
\* returns (or there is none, and then nothing is called), and no failure
\* carries a negative Retry-After.
OrdinaryFailures ==
    \A j \in 1..Len(r_errors) :
        GetRetryAfter(r_errors[j]) = <<>> \/ GetRetryAfter(r_errors[j])[1] >= 0

FirstAttempts(k) == [j \in 1..k |-> j]

RECURSIVE DelayAt(_)
DelayAt(j) == IF j <= 1 THEN RetryDelay ELSE DelayAt(j - 1) * BackoffFactor

C11_SingleAttempt ==
    /\ sys = "retry"
    /\ r_max_retries = 1
    /\ r_outcome = "last_exception"
    /\ r_calls = 1
    /\ r_waits = <<>>

\* ------------------------------------------------------------ C12
Max(a, b) == IF a >= b THEN a ELSE b

\* The failed calls that were followed by a wait, with a rate-limit error
\* carrying a Retry-After hint h > 0.
HintedWaits ==
    {j \in 1..Len(r_waits) :
        /\ IsRateLimitError(r_errors[j])
        /\ GetRetryAfter(r_errors[j]) # <<>>
        /\ GetRetryAfter(r_errors[j])[1] > 0}

\* C12 as stated: after a rate-limit failure with a Retry-After hint h > 0 the
\* wait before the next attempt equals max(delay * 2, h).
C12_WaitIsMaxOfBackoffAndHint ==
    \A j \in HintedWaits :
        r_waits[j] = Max(DelayAt(j) * 2, GetRetryAfter(r_errors[j])[1])

\* C12 amended: after a rate-limit failure with a Retry-After hint h > 0 the
\* wait before the next attempt equals h, whatever the backoff delay is; it is
\* therefore never shorter than h.
C12_WaitIsHint ==
    \A j \in HintedWaits :
        /\ r_waits[j] = GetRetryAfter(r_errors[j])[1]
        /\ r_waits[j] >= GetRetryAfter(r_errors[j])[1]

\* C12 witness: a hint of 1 second while delay * 2 is 4 seconds: the wait made
\* is 1.
C12_Witness ==
    /\ sys = "retry"
    /\ 1 \in HintedWaits
    /\ GetRetryAfter(r_errors[1])[1] = 1
    /\ DelayAt(1) * 2 = 4
    /\ r_waits[1] = 1

\* ------------------------------------------------------------ C13
\* The failed calls with a rate-limit error whose Retry-After hint is zero or
\* negative, made while further attempts remain.
NonPositiveHints ==
    {j \in 1..Len(r_errors) :
        /\ j < r_max_retries
        /\ IsRateLimitError(r_errors[j])
        /\ GetRetryAfter(r_errors[j]) # <<>>
        /\ GetRetryAfter(r_errors[j])[1] <= 0}

\* C13: a rate-limit failure whose Retry-After hint is zero or negative is
\* treated like one with no hint: the loop waits the fallback time
\* current_delay * 2, raises no error because of the hint, and goes on.
C13_NonPositiveHintIsAbsent ==
    (sys = "retry" /\ r_on_retry # "raising") =>
        /\ r_outcome # "sleep_error"
        /\ \A j \in NonPositiveHints :
              /\ Len(r_waits) >= j
              /\ r_waits[j] = DelayAt(j) * 2

\* The part of C13 the code keeps: a hint of zero falls back to
\* current_delay * 2.
C13_ZeroHintFallsBack ==
    \A j \in NonPositiveHints :
        (Len(r_waits) >= j /\ GetRetryAfter(r_errors[j])[1] = 0)
            => r_waits[j] = DelayAt(j) * 2

\* ------------------------------------------------------------ C14
\* C14: an observer that raises neither leaves nor stops the retry loop: the
\* remaining attempts are made and retry_api_call ends as with a silent
\* observer, returning the result or raising the operation's last error after
\* max_retries calls.
C14_ObserverNeverStopsLoop ==
    (sys = "retry" /\ r_on_retry = "raising" /\ OrdinaryFailures) =>
        /\ r_outcome # "observer_error"
        /\ r_pc = "done" /\ r_max_retries >= 1 =>
              \/ r_outcome = "returned" /\ r_calls = Len(r_errors) + 1
              \/ r_outcome = "last_exception" /\ r_calls = r_max_retries

\* ------------------------------------------------------------ C16
\* How often an event is on a queue.
RECURSIVE Occurrences(_, _)
Occurrences(items, event) ==
    IF items = <<>> THEN 0
    ELSE (IF Head(items) = event THEN 1 ELSE 0) + Occurrences(Tail(items), event)

\* The publish calls that have returned.
Delivered ==
    {k \in 1..Len(e_published) :
        e_publisher.pc = "idle" \/ e_publisher.event # e_published[k].event}

\* C16: an event with task id t is placed exactly once on every queue that at
\* publish time is subscribed to t or subscribed globally, and on no other
\* queue.
C16_DeliveredToMatchingQueues ==
    \A k \in Delivered : \A q \in QueueIds :
        LET event == e_published[k].event
            matches == /\ q \in e_published[k].subscribed
                       /\ e_queues[q].scope \in {event.task_id, GlobalScope}
        IN Occurrences(e_queues[q].items, event) = IF matches THEN 1 ELSE 0

\* C16 witness: one event delivered while a queue of its task and a queue of
\* another task are subscribed: the first holds it once, the second not.
C16_Witness ==
    /\ sys = "events"
    /\ Len(e_queues) = 2
    /\ e_queues[1].scope = "t1"
    /\ e_queues[2].scope = "t2"
    /\ \E k \in Delivered :
          /\ e_published[k].event.task_id = "t1"
          /\ e_published[k].subscribed = {1, 2}
          /\ Occurrences(e_queues[1].items, e_published[k].event) = 1
          /\ Occurrences(e_queues[2].items, e_published[k].event) = 0

\* ------------------------------------------------------------ C17
\* C17: once unsubscribe(queue) has returned no event is put on that queue any
\* more; the events it held stay.
C17_NoDeliveryAfterUnsubscribe ==
    \A q \in QueueIds :
        e_queues[q].unsubscribed => Len(e_queues[q].items) = e_queues[q].closed_len

\* What does hold: a publish call that begins after unsubscribe has returned
\* puts nothing on the queue.
C17_LaterPublishSkipsQueue ==
    \A q \in QueueIds :
        (e_queues[q].unsubscribed /\ e_publisher.pc = "put" /\ q \in e_publisher.todo)
            => q \in e_published[Len(e_published)].subscribed

\* ------------------------------------------------------------ C15
\* The events of the frames of a stage, and the events that announce a stage
\* of a run to the subscribers.
ItemLevelEvents == {"frame_completed", "frame_error", "stats_update", "issue_detected"}

StageAnnouncements == {"stage_changed", "task_started"}

C15_RunWithItemEvents ==
    \E r \in RunIds :
        /\ Len(runs[r].events) >= 5
        /\ runs[r].events[1] = "task_started"
        /\ runs[r].events[2] = "frame_completed"

\* ------------------------------------------------------------ C18
\* The engine threads that have changed Task.status and not yet published the
\* event for it.
PublishPending == \E r \in RunIds : runs[r].pc \in {"pop", "v_error"}

\* How often a run has published an event of one type.
RECURSIVE CountOf(_, _)
CountOf(events, type) ==
    IF events = <<>> THEN 0
    ELSE (IF Head(events) = type THEN 1 ELSE 0) + CountOf(Tail(events), type)

\* C18: every change of Task.status comes with one published stage_changed or
\* task_* event; a finished run has published exactly one task_completed, and
\* nothing after it.
C18_EveryChangeAnnounced ==
    /\ (prev_status # "none" /\ ~PublishPending) => status_event # "none"
    /\ \A r \in RunIds :
          (mode = IMAGES /\ runs[r].pc = "done")
              => /\ CountOf(runs[r].events, "task_completed") = 1
                 /\ runs[r].events[Len(runs[r].events)] = "task_completed"

\* The part of C18 the code keeps: a finished IMAGES run has published exactly
\* one task_completed, as its last event.
C18_OneTaskCompletedPerRun ==
    \A r \in RunIds :
        (mode = IMAGES /\ runs[r].pc = "done")
            => /\ CountOf(runs[r].events, "task_completed") = 1
               /\ runs[r].events[Len(runs[r].events)] = "task_completed"

\* ------------------------------------------------------------ C19
\* C19: between two successive observations with Task.status in the running
\* family (EXTRACTING, RUNNING, VISUALIZING, PACKAGING) Task.progress does not
\* decrease, also in a run started again after PAUSED, FAILED or COMPLETED.
C19_ProgressNeverDecreases ==
    [][(status \in RunningFamily /\ status' \in RunningFamily)
          => ProgressNum' * ProgressDen >= ProgressNum * ProgressDen']_vars

\* The part of C19 the code keeps: the progress of an IMAGES task never
\* decreases, whatever its status.
C19_ImagesProgressNeverDecreases ==
    [][mode = IMAGES => ProgressNum' * ProgressDen >= ProgressNum * ProgressDen']_vars

\* ------------------------------------------------------------ C20
\* C20: created_at, started_at and completed_at are each assigned at most once
\* in the life of a task, and when set they satisfy
\* created_at <= started_at <= completed_at.
C20_TimestampsSetOnce ==
    registered =>
        /\ stamp_writes.started_at <= 1
        /\ stamp_writes.completed_at <= 1
        /\ started_at # 0 => created_at <= started_at
        /\ completed_at # 0 => (started_at # 0 /\ started_at <= completed_at)

\* The part of C20 the code keeps: created_at is set when the task is made and
\* no later timestamp is earlier than it.
C20_CreatedFirst ==
    registered =>
        /\ created_at = 1
        /\ started_at # 0 => created_at <= started_at
        /\ completed_at # 0 => created_at <= completed_at

\* ------------------------------------------------------------ C21
\* C21: delete_task on a task whose status is EXTRACTING, RUNNING,
\* VISUALIZING or PACKAGING sets the engine's stop flag of the task before
\* it removes the task; afterwards the task is not in the registry
\* (get_task answers None) and a further delete_task answers False.
C21_DeleteStopsRunningFamily ==
    /\ deletion.status \in RunningFamily => deletion.flag = "false"
    /\ deletion.returns # <<>> =>
          /\ ~registered
          /\ Head(deletion.returns) = "true"
          /\ \A k \in 2..Len(deletion.returns) : deletion.returns[k] = "false"

\* What does hold: a task deleted while RUNNING has its flag cleared, and a
\* deleted task stays deleted.
C21_DeleteStopsRunning ==
    /\ deletion.status = RUNNING => deletion.flag = "false"
    /\ deletion.returns # <<>> =>
          /\ ~registered
          /\ Head(deletion.returns) = "true"
          /\ \A k \in 2..Len(deletion.returns) : deletion.returns[k] = "false"

\* ------------------------------------------------------------ C22
\* The VIDEO runs whose extract_frames call has answered without frames.
ExtractionFailedRuns ==
    {r \in RunIds : mode = VIDEO /\ runs[r].extracts > 0 /\ runs[r].frame_count = 0}

\* C22: a VIDEO run whose extraction gives no frames (or whose video is
\* missing) takes the task from EXTRACTING straight to FAILED and never to
\* RUNNING, submits no item for detection, publishes exactly one task_error
\* and calls extract_frames once only.
C22_ExtractionFailureIsFatal ==
    \A r \in ExtractionFailedRuns :
        /\ runs[r].pc \in {"v_except", "v_error", "done"}
        /\ runs[r].extracts = 1
        /\ Submitted(r) = {}
        /\ RUNNING \notin {status, prev_status}
        /\ IF runs[r].pc = "v_except"
           THEN status = EXTRACTING
           ELSE status = FAILED /\ prev_status = EXTRACTING
        /\ CountOf(runs[r].events, "task_error") = (IF runs[r].pc = "done" THEN 1 ELSE 0)
        /\ CountOf(runs[r].events, "stage_changed") = 1

\* A run has ended on a missing video: FAILED, nothing extracted.
C22_Witness ==
    \E r \in ExtractionFailedRuns :
        /\ runs[r].pc = "done"
        /\ status = FAILED
        /\ extract_progress = 0
        /\ runs[r].frames = 0
        /\ runs[r].events = <<"task_started", "stage_changed", "task_error">>

\* The same after ffmpeg ran and the frames were lost to the progress callback.
C22_FramesLost ==
    \E r \in ExtractionFailedRuns :
        runs[r].pc = "done" /\ status = FAILED /\ runs[r].frames > 0

\* ------------------------------------------------------------ C23
\* The frames whose detect call has used up its attempts without an answer.
AsyncExhausted ==
    {i \in Items : /\ a_tasks[i].st \in {"ret_ok", "ret_err", "counted"}
                   /\ a_tasks[i].attempt = DetectRetries}

\* The frames detect_and_save returned an error for.
AsyncReturnedError ==
    {i \in Items : a_tasks[i].st \in {"ret_err", "counted"} /\ a_tasks[i].last_error}

\* C23: in the async processor a frame all of whose attempts fail (timeout,
\* HTTP error, unparsable answer, or 429 each time) is returned with an
\* error, is counted as an error and not as a success, and gets no record.
C23_ExhaustedItemIsAnError ==
    sys = "async" =>
        /\ \A i \in AsyncExhausted : i \in AsyncReturnedError /\ a_disk[i] = "none"
        /\ a_pc = "done" =>
              /\ a_count.errors >= Cardinality(AsyncExhausted)
              /\ a_count.success + Cardinality(AsyncExhausted)
                    <= Cardinality({i \in Items : a_tasks[i].st = "counted"})

\* What holds: a frame whose attempts were used up with last_error set (one
\* of them timed out, got an HTTP error or an unparsable answer) is returned
\* with the error and gets no record.
C23_ExhaustedWithErrorIsAnError ==
    sys = "async" =>
        \A i \in AsyncReturnedError :
            /\ a_tasks[i].attempt = DetectRetries
            /\ a_disk[i] = "none"

\* ------------------------------------------------------------ C24
\* C24: for an item whose detection fails the engine adds one to
\* failed_frames and publishes frame_error in place of frame_completed: a
\* finished run has published one frame_error per failed item and one
\* frame_completed per successful item.
C24_FailedItemPublishesFrameError ==
    \A r \in RunIds :
        (mode = IMAGES /\ runs[r].pc = "done") =>
            /\ starts = 1 => failed_frames = runs[r].errs
            /\ CountOf(runs[r].events, "frame_error") = runs[r].errs
            /\ CountOf(runs[r].events, "frame_completed")
                  = runs[r].collected - runs[r].errs

\* What holds: every failed item adds exactly one to failed_frames, and every
\* collected item, failed or not, is announced by one frame_completed.
C24_FailedItemCountedOnce ==
    \A r \in RunIds :
        (mode = IMAGES /\ runs[r].pc = "done") =>
            /\ starts = 1 => failed_frames = runs[r].errs
            /\ CountOf(runs[r].events, "frame_error") = 0
            /\ CountOf(runs[r].events, "frame_completed") = runs[r].collected

\* ------------------------------------------------------------ C30
\* The items of the batch run that were counted as successful.
BatchCounted == {i \in BatchSucceeded : b_items[i] = "collected"}

\* C30: a record <stem>.json exists only for items the run counted as
\* successful and the stats hold only the detections of such items: after a
\* run over an empty output directory the records are exactly the successful
\* items (engine, batch processor and async processor alike).
C30_RecordsOnlyForSuccessfulItems ==
    /\ (mode = IMAGES /\ starts = 1 /\ runs[1].pc = "done") =>
          /\ Cardinality(records) = completed_frames
          /\ StatsTotal(stats) = runs[1].dets
    /\ \A r \in RunIds, i \in 1..MaxItems :
          (starts = 1 /\ runs[r].items[i].st = "done" /\ runs[r].items[i].result.error)
              => i \notin records
    /\ (sys = "batch" /\ b_pc = "done" /\ b_runs = 1) =>
          {i \in Items : b_disk[i] # "none"} = BatchCounted
    /\ (sys = "async" /\ a_pc = "done") =>
          Cardinality({i \in Items : a_tasks[i].st = "counted" /\ a_disk[i] = "full"})
              = a_count.success

\* What holds in the engine: every item counted as successful has its record.
C30_SuccessfulItemsHaveRecords ==
    (mode = IMAGES /\ starts = 1 /\ runs[1].pc = "done") =>
        /\ Cardinality(records) >= completed_frames
        /\ StatsTotal(stats) = runs[1].dets

\* ------------------------------------------------------------ C25
\* How often the engine threads of the task have published an event of one
\* type so far.
RECURSIVE PublishedUpTo(_, _)
PublishedUpTo(k, type) ==
    IF k = 0 THEN 0 ELSE CountOf(runs[k].events, type) + PublishedUpTo(k - 1, type)

Published(type) == PublishedUpTo(Len(runs), type)

\* C25: a failure is published before the task record shows it: the status
\* is FAILED only once a task_error has been published, and failed_frames
\* counts only items whose frame_error has been published.
C25_FailurePublishedBeforeVisible ==
    /\ status = FAILED => Published("task_error") >= 1
    /\ failed_frames <= Published("frame_error")

\* What holds: a run that has ended in FAILED has published its task_error.
C25_FailurePublishedAtEnd ==
    \A r \in RunIds :
        (mode = VIDEO /\ runs[r].pc = "done") => CountOf(runs[r].events, "task_error") = 1

\* ------------------------------------------------------------ C26
\* C26: once stop_task has set the stop flag, the engine run that was at work
\* submits no further item to the pool (also when the task is started again
\* before that run has ended), and every item it had submitted runs to its
\* end and yields one FrameResult.
C26_NoSubmissionAfterStop ==
    [][\A r \in RunIds :
          /\ runs[r].stopped =>
                \A i \in 1..MaxItems :
                    runs[r].items[i].st = "none" => runs'[r].items[i].st = "none"
          /\ runs'[r].pc = "done" =>
                /\ \A i \in Submitted(r) : runs'[r].items[i].st = "collected"
                /\ runs'[r].collected = Cardinality(Submitted(r))]_vars

\* The weaker statement that allows for the one item whose stop check was
\* passed just before the flag was set: a stopped run never passes the stop
\* check again. A second start_task sets the flag back to True and breaks it.
C26_StoppedRunFailsStopCheck ==
    [][\A r \in RunIds :
          (runs[r].stopped /\ runs[r].pc = "check") => runs'[r].pc # "submit"]_vars

\* What holds: the items a run has submitted are all collected, one
\* FrameResult each, when the run ends.
C26_SubmittedItemsComplete ==
    \A r \in RunIds :
        (mode = IMAGES /\ runs[r].pc = "done") =>
            /\ \A i \in Submitted(r) : runs[r].items[i].st = "collected"
            /\ runs[r].collected = Cardinality(Submitted(r))

\* ------------------------------------------------------------ C27
\* The engine threads of the task that are at work.
ActiveRuns == {r \in RunIds : runs[r].pc # "done"}

\* C27: at most one engine thread drives the task at any time, whatever the
\* order of start_task, stop_task and start_task again, and no item of the
\* task is processed by two workers at once.
C27_OneEngineThreadPerTask ==
    /\ Cardinality(ActiveRuns) <= 1
    /\ \A i \in 1..MaxItems :
          Cardinality({r \in RunIds : runs[r].items[i].st = "running"}) <= 1

\* The same item in the hands of two workers, one of each engine thread.
C27_ItemProcessedTwiceAtOnce ==
    \E i \in 1..MaxItems :
        Cardinality({r \in RunIds : runs[r].items[i].st = "running"}) = 2

\* What holds: within one engine thread no item is submitted twice, and
\* without a second start there is one thread only.
C27_OneThreadPerStart ==
    /\ Len(runs) = starts
    /\ starts <= 1 => Cardinality(ActiveRuns) <= 1

\* ------------------------------------------------------------ C28
Terminal == {COMPLETED, FAILED}

\* ffmpeg has written frames for the run of the VIDEO task: its extraction
\* collaborator succeeded.
ExtractionSucceeded == mode = VIDEO /\ Len(runs) = 1 /\ runs[1].frames > 0

\* C28: with fair scheduling and collaborators that return, a started task
\* reaches a terminal status, and a started task that is not stopped and
\* whose collaborators succeed reaches COMPLETED (IMAGES and VIDEO alike).
C28_StartedTaskCompletes ==
    /\ (starts = 1) ~> (status \in Terminal)
    /\ (starts = 1 /\ mode = IMAGES) ~> (status = COMPLETED)
    /\ ExtractionSucceeded ~> (status = COMPLETED)

\* What holds: a started task reaches a terminal status, an IMAGES task
\* COMPLETED, a VIDEO task FAILED.
C28_StartedTaskTerminates ==
    /\ (starts = 1) ~> (status \in Terminal)
    /\ (starts = 1 /\ mode = IMAGES) ~> (status = COMPLETED)
    /\ (starts = 1 /\ mode = VIDEO) ~> (status = FAILED)

\* The run of a VIDEO task for which ffmpeg wrote frames has ended: the
\* engine thread has returned from the pipeline and left the status FAILED.
C28_VideoRunEndsFailed ==
    (ExtractionSucceeded /\ runs[1].pc = "done") => status = FAILED

\* ------------------------------------------------------------ C29
\* The locks a thread is inside.
HeldBy(t) == {k \in LockNames : l_holder[k] = t}

\* A thread that stands before a lock another thread (or itself) is inside.
Blocked(t) ==
    /\ l_threads[t] # Idle
    /\ NextStep(t).do = "acquire"
    /\ l_holder[NextStep(t).lock] # "none"

WaitsFor(t) == l_holder[NextStep(t).lock]

\* The threads reached from the threads of S along at most k waits.
RECURSIVE WaitChain(_, _)
WaitChain(S, k) ==
    IF k = 0 THEN {}
    ELSE LET N == {WaitsFor(u) : u \in {v \in S : Blocked(v)}}
         IN N \cup WaitChain(N, k - 1)

\* C29: the registry lock, the engine lock and the bus lock never deadlock:
\* no threads wait for each other's locks in a cycle, and no thread is inside
\* a lock while it calls a collaborator or delivers an event.
C29_LocksNeverDeadlock ==
    /\ \A t \in LockThreads : t \notin WaitChain({t}, Cardinality(LockThreads))
    /\ \A t \in LockThreads :
          (l_threads[t] # Idle /\ NextStep(t).do \in {"call", "deliver"})
              => HeldBy(t) = {}

\* The server, inside the registry lock for delete_task, waits for the engine
\* lock while an engine thread is inside it, and another engine thread is
\* delivering an event.
C29_Witness ==
    /\ sys = "locks"
    /\ HeldBy("server") = {"registry"}
    /\ Blocked("server")
    /\ WaitsFor("server") = "engine1"
    /\ l_threads["engine2"] # Idle
    /\ NextStep("engine2").do = "deliver"

\* The locks are always taken in the order registry, engine; the bus lock is
\* never taken inside another lock nor another inside it.
C29_LockOrder ==
    \A t \in LockThreads :
        /\ HeldBy(t) \in {{}, {"registry"}, {"engine"}, {"bus"}, {"registry", "engine"}}
        /\ (l_threads[t] # Idle /\ NextStep(t).do = "acquire" /\ HeldBy(t) # {})
              => HeldBy(t) = {"registry"} /\ NextStep(t).lock = "engine"

====
